---- MODULE Spec2Model ----
(***************************************************************************)
(* Cab booking MCP server (src/server.py).                                 *)
(*                                                                         *)
(* The server keeps two module-level globals, bookings_db (a dict keyed    *)
(* by booking id) and booking_counter, and exposes three handlers:         *)
(* call_tool (book_cab, check_booking_status, list_available_cabs and the  *)
(* fall-through for any other name), read_resource and get_prompt.         *)
(*                                                                         *)
(* Two specifications are given.  Spec serves one request after another    *)
(* and records the last request and its response.  SpecConc keeps several  *)
(* book_cab requests in flight as asyncio tasks on one event loop, runs    *)
(* the statements of the handler one by one, and serves reads in between.  *)
(***************************************************************************)
EXTENDS Integers, Sequences, FiniteSets, TLC

\* ------------------------------------------------------------------------
\* Bounds of the model
\* ------------------------------------------------------------------------

\* Number of bookings after which no further book_cab is started.
MaxBookings == 3

\* Number of book_cab requests in flight in SpecConc.
NTasks == 3

\* ------------------------------------------------------------------------
\* Program constants
\* ------------------------------------------------------------------------

\* booking_counter = 1000
InitialCounter == 1000

\* "fare": 50.00, held in hundredths
Fare == 5000

\* ------------------------------------------------------------------------
\* Text helpers: what Python's formatting does to the values
\* ------------------------------------------------------------------------

Digits == <<"0", "1", "2", "3", "4", "5", "6", "7", "8", "9">>

\* str(n) of a non-negative int, as the f-string f"CAB{booking_counter}" renders it.
RECURSIVE ToDecimal(_)
ToDecimal(n) ==
    IF n < 10 THEN Digits[n + 1]
    ELSE ToDecimal(n \div 10) \o Digits[(n % 10) + 1]

\* str(x) of a non-negative float with at most two decimals (x in hundredths):
\* the shortest repr, with at least one digit after the point (50.0, 12.5, 0.25).
PyFloatStr(c) ==
    ToDecimal(c \div 100) \o "." \o
        (IF c % 10 = 0 THEN Digits[((c % 100) \div 10) + 1]
         ELSE Digits[((c % 100) \div 10) + 1] \o Digits[(c % 10) + 1])

LowerLetters ==
    <<"a", "b", "c", "d", "e", "f", "g", "h", "i", "j", "k", "l", "m",
      "n", "o", "p", "q", "r", "s", "t", "u", "v", "w", "x", "y", "z">>

UpperLetters ==
    <<"A", "B", "C", "D", "E", "F", "G", "H", "I", "J", "K", "L", "M",
      "N", "O", "P", "Q", "R", "S", "T", "U", "V", "W", "X", "Y", "Z">>

UpperChar(c) ==
    IF \E i \in 1..26 : LowerLetters[i] = c
    THEN UpperLetters[CHOOSE i \in 1..26 : LowerLetters[i] = c]
    ELSE c

\* str.upper()
RECURSIVE PyUpper(_)
PyUpper(s) ==
    IF Len(s) = 0 THEN ""
    ELSE UpperChar(Head(s)) \o PyUpper(Tail(s))

\* ------------------------------------------------------------------------
\* dict: Python dicts keep insertion order; a dict is a sequence of items
\* ------------------------------------------------------------------------

DictKeys(d) == {d[i].key : i \in 1..Len(d)}

\* k in d
DictHas(d, k) == \E i \in 1..Len(d) : d[i].key = k

\* d[k]
DictGet(d, k) == d[CHOOSE i \in 1..Len(d) : d[i].key = k].value

\* A dict that puts a new key in front
DictSetFront(d, k, v) ==
    IF DictHas(d, k)
    THEN [i \in 1..Len(d) |->
            IF d[i].key = k THEN [key |-> k, value |-> v] ELSE d[i]]
    ELSE <<[key |-> k, value |-> v]>> \o d

\* d[k] = v : an existing key keeps its position and gets the new value,
\* a new key is appended.
DictSet(d, k, v) ==
    IF DictHas(d, k)
    THEN [i \in 1..Len(d) |->
            IF d[i].key = k THEN [key |-> k, value |-> v] ELSE d[i]]
    ELSE Append(d, [key |-> k, value |-> v])

\* ------------------------------------------------------------------------
\* Inputs
\* ------------------------------------------------------------------------

\* A well-formed book_cab request
ValidArguments ==
    [pickup_location |-> "Airport",
     dropoff_location |-> "Downtown",
     pickup_datetime |-> "2024-01-01T10:00:00",
     cab_type |-> "Premium"]

\* Requests carrying all four arguments: the well-formed one, one with an
\* empty pickup location, one whose date-time is no date-time and whose
\* drop-off holds a quotation mark, and one whose cab type is not an
\* advertised one.
FullArguments ==
    {ValidArguments,
     [ValidArguments EXCEPT !.pickup_location = ""],
     [ValidArguments EXCEPT !.pickup_datetime = "soon",
                            !.dropoff_location = "O\"Hare"],
     [ValidArguments EXCEPT !.cab_type = "Helicopter"]}

BookCabKeys ==
    {"pickup_location", "dropoff_location", "pickup_datetime", "cab_type"}

\* Requests lacking one of the four arguments, or all of them
PartialArguments ==
    {[k \in BookCabKeys \ {m} |-> ValidArguments[k]] : m \in BookCabKeys}
        \cup {<<>>}

\* The argument mappings a client may send with book_cab
BookCabArguments == FullArguments \cup PartialArguments

\* What the tool schema advertises for cab_type and pickup_datetime
AdvertisedCabTypes == {"Standard", "Premium", "Luxury"}

IsoDatetimes == {"2024-01-01T10:00:00"}

\* Booking ids a client may ask about: ids that are or will be issued, one
\* that never is, and one that is not of the id format at all.
BookingIdValues ==
    {"CAB" \o ToDecimal(n) : n \in InitialCounter..(InitialCounter + MaxBookings)}
        \cup {"CAB9999", "1000"}

CheckStatusArguments ==
    {[booking_id |-> b] : b \in BookingIdValues} \cup {<<>>}

LocationValues == {"Airport", ""}

ListCabsArguments ==
    {[location |-> l] : l \in LocationValues} \cup {<<>>}

ToolNames ==
    {"book_cab", "check_booking_status", "list_available_cabs"}

UnknownToolNames == {"cancel_booking", ""}

ResourceUris == {"booking://all", "booking://one"}

PromptNames == {"booking_assistant", "driver_assistant"}

\* ------------------------------------------------------------------------
\* State
\* ------------------------------------------------------------------------

VARIABLES
    bookings_db,      \* the dict bookings_db
    booking_counter,  \* the int booking_counter
    request,          \* the request served last (Spec)
    response,         \* what the handler returned or raised for it (Spec)
    issued,           \* the ids returned by book_cab, in the order returned
    task_pc,          \* SpecConc: where each task is in the handler
    task_args,        \* SpecConc: the arguments each task was called with
    task_id,          \* SpecConc: the local booking_id of each task
    task_result,      \* SpecConc: what each finished task returned
    running           \* SpecConc: the task the event loop is running, 0 if none

vars ==
    <<bookings_db, booking_counter, request, response, issued,
      task_pc, task_args, task_id, task_result, running>>

dbVars == <<bookings_db, booking_counter>>

seqVars == <<request, response>>

taskVars == <<task_pc, task_args, task_id, task_result, running>>

Tasks == 1..NTasks

NoRequest == [op |-> "none"]

NoResponse == [kind |-> "none"]

\* ------------------------------------------------------------------------
\* What the handlers return
\* ------------------------------------------------------------------------

\* A list holding one TextContent(type="text", text=...).  The text is kept
\* as its first line and the "Label: value" lines that follow it.
TextContent(heading, lines) ==
    [kind |-> "content", type |-> "text", heading |-> heading, lines |-> lines]

\* An exception leaving the handler.
Raise(exc, msg) == [kind |-> "raise", exc |-> exc, msg |-> msg]

\* The value of the line with the given label
Line(resp, label) ==
    resp.lines[CHOOSE i \in 1..Len(resp.lines) : resp.lines[i][1] = label][2]

HasLine(resp, label) ==
    /\ resp.kind = "content"
    /\ \E i \in 1..Len(resp.lines) : resp.lines[i][1] = label

\* The record with pickup and drop-off stored under each other's key
BookingRecordSwapped(booking_id, pickup, dropoff, datetime, cab_type) ==
    [booking_id |-> booking_id,
     pickup_location |-> dropoff,
     dropoff_location |-> pickup,
     pickup_datetime |-> datetime,
     cab_type |-> cab_type,
     status |-> "confirmed",
     fare |-> Fare]

\* The record book_cab stores under booking_id
BookingRecord(booking_id, pickup, dropoff, datetime, cab_type) ==
    [booking_id |-> booking_id,
     pickup_location |-> pickup,
     dropoff_location |-> dropoff,
     pickup_datetime |-> datetime,
     cab_type |-> cab_type,
     status |-> "confirmed",
     fare |-> Fare]

\* The confirmation book_cab returns
BookCabConfirmation(booking_id, pickup, dropoff, datetime, cab_type) ==
    TextContent("Cab Booking Confirmed!",
        << <<"Booking ID", booking_id>>,
           <<"Pickup", pickup>>,
           <<"Drop-off", dropoff>>,
           <<"Time", datetime>>,
           <<"Cab Type", cab_type>>,
           <<"Status", "CONFIRMED">>,
           <<"Estimated Fare", "$50.00">> >>)

\* The first of the four keys, in the order the handler reads them, that the
\* arguments lack
FirstMissing(arguments, keys) ==
    keys[CHOOSE i \in 1..Len(keys) :
            /\ keys[i] \notin DOMAIN arguments
            /\ \A j \in 1..(i - 1) : keys[j] \in DOMAIN arguments]

BookCabKeyOrder ==
    <<"pickup_location", "dropoff_location", "pickup_datetime", "cab_type">>

\* ------------------------------------------------------------------------
\* Spec: one request at a time
\* ------------------------------------------------------------------------

Init ==
    /\ bookings_db = <<>>
    /\ booking_counter = InitialCounter
    /\ request = NoRequest
    /\ response = NoResponse
    /\ issued = <<>>
    /\ task_pc = [t \in Tasks |-> "idle"]
    /\ task_args = [t \in Tasks |-> <<>>]
    /\ task_id = [t \in Tasks |-> ""]
    /\ task_result = [t \in Tasks |-> NoResponse]
    /\ running = 0

\* The id formatted from the counter after the increment
NewBookingIdAfterIncrement(counter) == "CAB" \o ToDecimal(counter + 1)

\* The id book_cab hands out
NewBookingId(counter) == "CAB" \o ToDecimal(counter)

\* A counter that is read but not advanced
NextCounterStuck(counter) == counter

\* A counter advanced by two
NextCounterSkip(counter) == counter + 2

\* The counter after book_cab has taken an id
NextCounter(counter) == counter + 1

\* call_tool("book_cab", arguments) with all four arguments present
BookCab ==
    \E arguments \in BookCabArguments :
        /\ BookCabKeys \subseteq DOMAIN arguments
        /\ booking_counter < InitialCounter + MaxBookings
        /\ LET pickup == arguments["pickup_location"]
               dropoff == arguments["dropoff_location"]
               datetime == arguments["pickup_datetime"]
               cab_type == arguments["cab_type"]
               booking_id == NewBookingId(booking_counter)
           IN /\ booking_counter' = NextCounter(booking_counter)
              /\ bookings_db' =
                    DictSet(bookings_db, booking_id,
                        BookingRecord(booking_id, pickup, dropoff, datetime,
                                      cab_type))
              /\ response' =
                    BookCabConfirmation(booking_id, pickup, dropoff, datetime,
                                        cab_type)
              /\ issued' = Append(issued, booking_id)
        /\ request' = [op |-> "call_tool", name |-> "book_cab",
                       arguments |-> arguments]
        /\ UNCHANGED taskVars

\* A book_cab that takes its id before it reads the arguments
BookCabMissingConsumesId ==
    \E arguments \in BookCabArguments :
        /\ ~(BookCabKeys \subseteq DOMAIN arguments)
        /\ booking_counter < InitialCounter + MaxBookings
        /\ request' = [op |-> "call_tool", name |-> "book_cab",
                       arguments |-> arguments]
        /\ response' = Raise("KeyError", FirstMissing(arguments, BookCabKeyOrder))
        /\ booking_counter' = NextCounter(booking_counter)
        /\ UNCHANGED <<bookings_db, issued, taskVars>>

\* call_tool("book_cab", arguments) with an argument missing: the subscript
\* raises KeyError before the counter is read
BookCabMissing ==
    \E arguments \in BookCabArguments :
        /\ ~(BookCabKeys \subseteq DOMAIN arguments)
        /\ request' = [op |-> "call_tool", name |-> "book_cab",
                       arguments |-> arguments]
        /\ response' = Raise("KeyError", FirstMissing(arguments, BookCabKeyOrder))
        /\ UNCHANGED <<dbVars, issued, taskVars>>

\* The text check_booking_status returns for a stored booking
BookingStatusText(booking) ==
    TextContent(" Booking Status",
        << <<"Booking ID", booking.booking_id>>,
           <<"Status", PyUpper(booking.status)>>,
           <<"Pickup", booking.pickup_location>>,
           <<"Drop-off", booking.dropoff_location>>,
           <<"Time", booking.pickup_datetime>>,
           <<"Cab Type", booking.cab_type>>,
           <<"Fare", "$" \o PyFloatStr(booking.fare)>> >>)

\* The text check_booking_status returns for an id that is not a key
NotFoundText(booking_id) ==
    TextContent("Booking " \o booking_id
                    \o " not found. Please check the booking ID.", <<>>)

\* A lookup that takes the booking out of the dict (bookings_db.pop)
CheckBookingStatusFoundPop ==
    \E arguments \in CheckStatusArguments :
        /\ "booking_id" \in DOMAIN arguments
        /\ DictHas(bookings_db, arguments["booking_id"])
        /\ request' = [op |-> "call_tool", name |-> "check_booking_status",
                       arguments |-> arguments]
        /\ response' =
              BookingStatusText(DictGet(bookings_db, arguments["booking_id"]))
        /\ bookings_db' =
              SelectSeq(bookings_db,
                        LAMBDA e : e.key # arguments["booking_id"])
        /\ UNCHANGED <<booking_counter, issued, taskVars>>

\* call_tool("check_booking_status", arguments), booking_id in bookings_db
CheckBookingStatusFound ==
    \E arguments \in CheckStatusArguments :
        /\ "booking_id" \in DOMAIN arguments
        /\ DictHas(bookings_db, arguments["booking_id"])
        /\ request' = [op |-> "call_tool", name |-> "check_booking_status",
                       arguments |-> arguments]
        /\ response' =
              BookingStatusText(DictGet(bookings_db, arguments["booking_id"]))
        /\ UNCHANGED <<dbVars, issued, taskVars>>

\* A lookup that subscripts the dict without testing membership first
CheckBookingStatusNotFoundRaises ==
    \E arguments \in CheckStatusArguments :
        /\ "booking_id" \in DOMAIN arguments
        /\ ~DictHas(bookings_db, arguments["booking_id"])
        /\ request' = [op |-> "call_tool", name |-> "check_booking_status",
                       arguments |-> arguments]
        /\ response' = Raise("KeyError", arguments["booking_id"])
        /\ UNCHANGED <<dbVars, issued, taskVars>>

\* call_tool("check_booking_status", arguments), booking_id not in bookings_db
CheckBookingStatusNotFound ==
    \E arguments \in CheckStatusArguments :
        /\ "booking_id" \in DOMAIN arguments
        /\ ~DictHas(bookings_db, arguments["booking_id"])
        /\ request' = [op |-> "call_tool", name |-> "check_booking_status",
                       arguments |-> arguments]
        /\ response' = NotFoundText(arguments["booking_id"])
        /\ UNCHANGED <<dbVars, issued, taskVars>>

\* call_tool("check_booking_status", arguments) without booking_id
CheckBookingStatusMissing ==
    \E arguments \in CheckStatusArguments :
        /\ "booking_id" \notin DOMAIN arguments
        /\ request' = [op |-> "call_tool", name |-> "check_booking_status",
                       arguments |-> arguments]
        /\ response' = Raise("KeyError", "booking_id")
        /\ UNCHANGED <<dbVars, issued, taskVars>>

\* The list available_cabs
AvailableCabs ==
    <<[type |-> "Standard", count |-> 5, eta |-> "3 mins"],
      [type |-> "Premium", count |-> 3, eta |-> "5 mins"],
      [type |-> "Luxury", count |-> 1, eta |-> "8 mins"]>>

\* A listing that shows cabs only where a location is given
AvailableCabsTextFiltered(location) ==
    TextContent(" Available Cabs near " \o location \o ":",
        IF location = "" THEN <<>>
        ELSE [i \in 1..Len(AvailableCabs) |->
                <<AvailableCabs[i].type,
                  ToDecimal(AvailableCabs[i].count) \o " available (ETA: "
                      \o AvailableCabs[i].eta \o ")">>])

\* The text list_available_cabs builds, one line per cab class
AvailableCabsText(location) ==
    TextContent(" Available Cabs near " \o location \o ":",
        [i \in 1..Len(AvailableCabs) |->
            <<AvailableCabs[i].type,
              ToDecimal(AvailableCabs[i].count) \o " available (ETA: "
                  \o AvailableCabs[i].eta \o ")">>])

\* call_tool("list_available_cabs", arguments)
ListAvailableCabs ==
    \E arguments \in ListCabsArguments :
        /\ "location" \in DOMAIN arguments
        /\ request' = [op |-> "call_tool", name |-> "list_available_cabs",
                       arguments |-> arguments]
        /\ response' = AvailableCabsText(arguments["location"])
        /\ UNCHANGED <<dbVars, issued, taskVars>>

\* call_tool("list_available_cabs", arguments) without location
ListAvailableCabsMissing ==
    \E arguments \in ListCabsArguments :
        /\ "location" \notin DOMAIN arguments
        /\ request' = [op |-> "call_tool", name |-> "list_available_cabs",
                       arguments |-> arguments]
        /\ response' = Raise("KeyError", "location")
        /\ UNCHANGED <<dbVars, issued, taskVars>>

\* A dispatcher that raises for a name it does not know
UnknownToolRaises ==
    \E name \in UnknownToolNames :
        /\ name \notin ToolNames
        /\ request' = [op |-> "call_tool", name |-> name, arguments |-> <<>>]
        /\ response' = Raise("ValueError", "Unknown tool: " \o name)
        /\ UNCHANGED <<dbVars, issued, taskVars>>

\* call_tool(name, arguments) with any other name: the final else branch,
\* which does not look at the arguments
UnknownTool ==
    \E name \in UnknownToolNames :
        /\ name \notin ToolNames
        /\ request' = [op |-> "call_tool", name |-> name, arguments |-> <<>>]
        /\ response' = TextContent("Unknown tool: " \o name, <<>>)
        /\ UNCHANGED <<dbVars, issued, taskVars>>

\* The keys of a stored booking, in the order of the dict literal
BookingFieldOrder ==
    <<"booking_id", "pickup_location", "dropoff_location", "pickup_datetime",
      "cab_type", "status", "fare">>

\* What json.dumps writes for the characters of a str: a quotation mark
\* and a backslash get a backslash in front (the inputs here hold no control
\* or non-ASCII characters)
RECURSIVE JsonEscape(_)
JsonEscape(s) ==
    IF Len(s) = 0 THEN ""
    ELSE (IF Head(s) = "\"" \/ Head(s) = "\\"
          THEN "\\" \o Head(s)
          ELSE Head(s)) \o JsonEscape(Tail(s))

\* A str written between quotation marks as it is
JsonStringRaw(s) == "\"" \o s \o "\""

\* json.dumps of a str
JsonString(s) == "\"" \o JsonEscape(s) \o "\""

\* json.dumps of one stored booking: its members in dict order, each a
\* quoted name and a JSON literal
JsonBooking(b) ==
    [i \in 1..Len(BookingFieldOrder) |->
        <<JsonString(BookingFieldOrder[i]),
          IF BookingFieldOrder[i] = "fare"
          THEN PyFloatStr(b[BookingFieldOrder[i]])
          ELSE JsonString(b[BookingFieldOrder[i]])>>]

\* json.dumps(bookings_db, indent=2): the members of the outer object in
\* dict order (the layout of the text is left out)
JsonDumps(d) ==
    [i \in 1..Len(d) |-> <<JsonString(d[i].key), JsonBooking(d[i].value)>>]

\* read_resource("booking://all")
ReadResourceAll ==
    \E uri \in ResourceUris :
        /\ uri = "booking://all"
        /\ request' = [op |-> "read_resource", uri |-> uri]
        /\ response' = [kind |-> "resource", body |-> JsonDumps(bookings_db)]
        /\ UNCHANGED <<dbVars, issued, taskVars>>

\* read_resource(uri) with any other uri
ReadResourceUnknown ==
    \E uri \in ResourceUris :
        /\ uri # "booking://all"
        /\ request' = [op |-> "read_resource", uri |-> uri]
        /\ response' = Raise("ValueError", "Unknown resource: " \o uri)
        /\ UNCHANGED <<dbVars, issued, taskVars>>

\* The template get_prompt returns (the guidance text is cut to its first line)
BookingAssistantPrompt ==
    [kind |-> "prompt",
     messages |->
        <<[role |-> "system",
           content |-> [type |-> "text",
                        text |-> "You are a professional cab booking assistant."]]>>]

\* get_prompt("booking_assistant")
GetPromptAssistant ==
    \E name \in PromptNames :
        /\ name = "booking_assistant"
        /\ request' = [op |-> "get_prompt", name |-> name]
        /\ response' = BookingAssistantPrompt
        /\ UNCHANGED <<dbVars, issued, taskVars>>

\* An unknown prompt answered with a text instead of an exception
GetPromptUnknownText ==
    \E name \in PromptNames :
        /\ name # "booking_assistant"
        /\ request' = [op |-> "get_prompt", name |-> name]
        /\ response' = TextContent("Unknown prompt: " \o name, <<>>)
        /\ UNCHANGED <<dbVars, issued, taskVars>>

\* get_prompt(name) with any other name
GetPromptUnknown ==
    \E name \in PromptNames :
        /\ name # "booking_assistant"
        /\ request' = [op |-> "get_prompt", name |-> name]
        /\ response' = Raise("ValueError", "Unknown prompt: " \o name)
        /\ UNCHANGED <<dbVars, issued, taskVars>>

Next ==
    \/ BookCab
    \/ BookCabMissing
    \/ CheckBookingStatusFound
    \/ CheckBookingStatusNotFound
    \/ CheckBookingStatusMissing
    \/ ListAvailableCabs
    \/ ListAvailableCabsMissing
    \/ UnknownTool
    \/ ReadResourceAll
    \/ ReadResourceUnknown
    \/ GetPromptAssistant
    \/ GetPromptUnknown

Spec == Init /\ [][Next]_vars

\* ------------------------------------------------------------------------
\* SpecConc: book_cab requests in flight at once
\*
\* Each request is an asyncio task running the coroutine call_tool on the
\* one event loop of asyncio.run(main()).  The loop runs a task until the
\* coroutine awaits or finishes; only then can another task run.
\* ------------------------------------------------------------------------

\* What the tasks are called with
ConcArguments ==
    {ValidArguments,
     [ValidArguments EXCEPT !.pickup_location = ""],
     [k \in BookCabKeys \ {"cab_type"} |-> ValidArguments[k]]}

\* An await between reading booking_counter and incrementing it
AwaitPointsRace == {"increment"}

\* The places of the book_cab branch at which the coroutine awaits: none
AwaitPoints == {}

\* The loop is free to run a task: nothing is running, or the running
\* coroutine is suspended at an await
LoopFree == IF running = 0 THEN TRUE ELSE task_pc[running] \in AwaitPoints

\* A request arrives and its task is created
Submit(t) ==
    \E arguments \in ConcArguments :
        /\ task_pc[t] = "idle"
        /\ task_pc' = [task_pc EXCEPT ![t] = "pending"]
        /\ task_args' = [task_args EXCEPT ![t] = arguments]
        /\ UNCHANGED <<dbVars, seqVars, issued, task_id, task_result, running>>

\* The loop starts a pending task or resumes a suspended one
Resume(t) ==
    /\ LoopFree
    /\ running # t
    /\ \/ task_pc[t] = "pending"
       \/ task_pc[t] \in AwaitPoints
    /\ running' = t
    /\ task_pc' = [task_pc EXCEPT
                      ![t] = IF task_pc[t] = "pending" THEN "extract" ELSE @]
    /\ UNCHANGED <<dbVars, seqVars, issued, task_args, task_id, task_result>>

\* pickup = arguments["pickup_location"] ... cab_type = arguments["cab_type"]
Extract(t) ==
    /\ running = t
    /\ task_pc[t] = "extract"
    /\ IF BookCabKeys \subseteq DOMAIN task_args[t]
       THEN /\ task_pc' = [task_pc EXCEPT ![t] = "read_counter"]
            /\ UNCHANGED <<task_result, running>>
       ELSE /\ task_pc' = [task_pc EXCEPT ![t] = "done"]
            /\ task_result' =
                  [task_result EXCEPT
                      ![t] = Raise("KeyError",
                                   FirstMissing(task_args[t], BookCabKeyOrder))]
            /\ running' = 0
    /\ UNCHANGED <<dbVars, seqVars, issued, task_args, task_id>>

\* booking_id = f"CAB{booking_counter}"
ReadCounter(t) ==
    /\ running = t
    /\ task_pc[t] = "read_counter"
    /\ task_id' = [task_id EXCEPT ![t] = NewBookingId(booking_counter)]
    /\ task_pc' = [task_pc EXCEPT ![t] = "increment"]
    /\ UNCHANGED <<dbVars, seqVars, issued, task_args, task_result, running>>

\* booking_counter += 1
Increment(t) ==
    /\ running = t
    /\ task_pc[t] = "increment"
    /\ booking_counter' = NextCounter(booking_counter)
    /\ task_pc' = [task_pc EXCEPT ![t] = "insert"]
    /\ UNCHANGED <<bookings_db, seqVars, issued, task_args, task_id,
                   task_result, running>>

\* A record put into the dict with its id only, the other fields to follow
InsertPartial(t) ==
    /\ running = t
    /\ task_pc[t] = "insert"
    /\ bookings_db' =
          DictSet(bookings_db, task_id[t], [booking_id |-> task_id[t]])
    /\ task_pc' = [task_pc EXCEPT ![t] = "return"]
    /\ UNCHANGED <<booking_counter, seqVars, issued, task_args, task_id,
                   task_result, running>>

\* bookings_db[booking_id] = {...}
Insert(t) ==
    /\ running = t
    /\ task_pc[t] = "insert"
    /\ bookings_db' =
          DictSet(bookings_db, task_id[t],
              BookingRecord(task_id[t],
                            task_args[t]["pickup_location"],
                            task_args[t]["dropoff_location"],
                            task_args[t]["pickup_datetime"],
                            task_args[t]["cab_type"]))
    /\ task_pc' = [task_pc EXCEPT ![t] = "return"]
    /\ UNCHANGED <<booking_counter, seqVars, issued, task_args, task_id,
                   task_result, running>>

\* return [TextContent(...)]
Return(t) ==
    /\ running = t
    /\ task_pc[t] = "return"
    /\ task_result' =
          [task_result EXCEPT
              ![t] = BookCabConfirmation(task_id[t],
                                         task_args[t]["pickup_location"],
                                         task_args[t]["dropoff_location"],
                                         task_args[t]["pickup_datetime"],
                                         task_args[t]["cab_type"])]
    /\ issued' = Append(issued, task_id[t])
    /\ task_pc' = [task_pc EXCEPT ![t] = "done"]
    /\ running' = 0
    /\ UNCHANGED <<dbVars, seqVars, task_args, task_id>>

\* A check_booking_status or read_resource request served while book_cab
\* requests are in flight.  These handlers have no await either: the loop
\* runs one of them from start to end whenever it is free.
ReadWhileBooking ==
    /\ LoopFree
    /\ \/ CheckBookingStatusFound
       \/ CheckBookingStatusNotFound
       \/ ReadResourceAll

NextConc ==
    \/ \E t \in Tasks :
          \/ Submit(t)
          \/ Resume(t)
          \/ Extract(t)
          \/ ReadCounter(t)
          \/ Increment(t)
          \/ Insert(t)
          \/ Return(t)
    \/ ReadWhileBooking

SpecConc == Init /\ [][NextConc]_vars

\* ------------------------------------------------------------------------
\* Reading the responses back
\* ------------------------------------------------------------------------

IsDigit(c) == \E i \in 1..10 : Digits[i] = c

DigitValue(c) == (CHOOSE i \in 1..10 : Digits[i] = c) - 1

\* s is a non-empty string of decimal digits
IsDecimal(s) ==
    /\ Len(s) > 0
    /\ \A i \in 1..Len(s) : IsDigit(SubSeq(s, i, i))

\* The number a string of decimal digits denotes
RECURSIVE DecimalValue(_)
DecimalValue(s) ==
    IF Len(s) = 0 THEN 0
    ELSE 10 * DecimalValue(SubSeq(s, 1, Len(s) - 1))
            + DigitValue(SubSeq(s, Len(s), Len(s)))

\* s is "CAB" followed by a decimal integer
IsCabId(s) ==
    /\ Len(s) > 3
    /\ SubSeq(s, 1, 3) = "CAB"
    /\ IsDecimal(SubSeq(s, 4, Len(s)))

\* The integer after "CAB"
CabIdNumber(s) == DecimalValue(SubSeq(s, 4, Len(s)))

\* The amount, in hundredths, of "$" whole "." one or two digits
MoneyValue(s) ==
    LET dot == CHOOSE i \in 1..Len(s) : SubSeq(s, i, i) = "."
        frac == SubSeq(s, dot + 1, Len(s))
    IN 100 * DecimalValue(SubSeq(s, 2, dot - 1))
         + (IF Len(frac) = 1 THEN 10 * DecimalValue(frac)
            ELSE DecimalValue(frac))

\* The request is a call of the named tool
IsCall(req, name) == req.op = "call_tool" /\ req.name = name

\* A book_cab confirmation
IsConfirmation(resp) ==
    resp.kind = "content" /\ resp.heading = "Cab Booking Confirmed!"

\* The tasks of SpecConc that have read the counter
HasReadCounter(t) ==
    \/ task_pc[t] \in {"increment", "insert", "return"}
    \/ task_pc[t] = "done" /\ task_result[t].kind = "content"

\* The tasks of SpecConc that have inserted their record
HasInserted(t) ==
    \/ task_pc[t] = "return"
    \/ task_pc[t] = "done" /\ task_result[t].kind = "content"

\* ------------------------------------------------------------------------
\* Claims
\* ------------------------------------------------------------------------

\* C1: with N book_cab calls in flight at once, the ids handed out are of the
\* form "CAB" + decimal integer, strictly increasing (hence pairwise
\* distinct) in the order the creates take effect; no two creates read the
\* same counter value, and no insert is lost.
C1_ConcurrentIdsUnique ==
    /\ \A i \in 1..Len(issued) : IsCabId(issued[i])
    /\ \A i, j \in 1..Len(issued) :
          i < j => CabIdNumber(issued[i]) < CabIdNumber(issued[j])
    /\ \A t, u \in Tasks :
          (t # u /\ HasReadCounter(t) /\ HasReadCounter(u))
              => task_id[t] # task_id[u]
    /\ Len(bookings_db) = Cardinality({t \in Tasks : HasInserted(t)})
    /\ \A t \in Tasks :
          HasInserted(t) => DictHas(bookings_db, task_id[t])

\* All N requests were in flight together and all were served with an id
C1_Witness ==
    /\ \A t \in Tasks : task_pc[t] = "done" /\ task_result[t].kind = "content"
    /\ Len(issued) = NTasks

\* C2: the k-th successful book_cab returns CAB(1000 + k - 1), whatever
\* other requests were served in between; a confirmation carries the id just
\* issued, status Confirmed and fare 50.00.
C2_KthBookingId ==
    /\ \A k \in 1..Len(issued) :
          /\ IsCabId(issued[k])
          /\ CabIdNumber(issued[k]) = 1000 + k - 1
    /\ (request.op = "call_tool" /\ IsConfirmation(response)) =>
          /\ Len(issued) > 0
          /\ Line(response, "Booking ID") = issued[Len(issued)]
          /\ PyUpper(Line(response, "Status")) = PyUpper("Confirmed")
          /\ MoneyValue(Line(response, "Estimated Fare")) = 5000

\* The second successful book_cab has just returned CAB1001
C2_Witness ==
    /\ request.op = "call_tool"
    /\ IsConfirmation(response)
    /\ Len(issued) = 2
    /\ Line(response, "Booking ID") = "CAB1001"

\* C3: check_booking_status(id) right after the book_cab that returned id
\* reports every field as that book_cab was given or computed it.
C3_StatusAfterBooking ==
    [][(/\ request.op = "call_tool"
        /\ IsConfirmation(response)
        /\ request'.op = "call_tool"
        /\ request'.name = "check_booking_status"
        /\ "booking_id" \in DOMAIN request'.arguments
        /\ request'.arguments["booking_id"] = Line(response, "Booking ID"))
       => (/\ response'.kind = "content"
           /\ HasLine(response', "Booking ID")
           /\ Line(response', "Booking ID") = Line(response, "Booking ID")
           /\ Line(response', "Pickup") = request.arguments["pickup_location"]
           /\ Line(response', "Drop-off") = request.arguments["dropoff_location"]
           /\ Line(response', "Time") = request.arguments["pickup_datetime"]
           /\ Line(response', "Cab Type") = request.arguments["cab_type"]
           /\ Line(response', "Status") = Line(response, "Status")
           /\ MoneyValue(Line(response', "Fare"))
                 = MoneyValue(Line(response, "Estimated Fare")))]_vars

\* The status of the booking made last has been reported
C3_Witness ==
    /\ request.op = "call_tool"
    /\ request.name = "check_booking_status"
    /\ Len(issued) > 0
    /\ HasLine(response, "Booking ID")
    /\ Line(response, "Booking ID") = issued[Len(issued)]

\* C4: the listing has as many bookings as book_cab has succeeded, in
\* creation order, that is non-decreasing by the number of the id; the body
\* of resource booking://all lists exactly those ids in that order.
C4_ListingLengthAndOrder ==
    /\ Len(bookings_db) = Len(issued)
    /\ \A i, j \in 1..Len(bookings_db) :
          i <= j => CabIdNumber(bookings_db[i].key)
                        <= CabIdNumber(bookings_db[j].key)
    /\ response.kind = "resource" =>
          /\ Len(response.body) = Len(issued)
          /\ \A i \in 1..Len(issued) :
                response.body[i][1] = JsonString(issued[i])

\* The resource was read with two or more bookings stored
C4_Witness ==
    /\ response.kind = "resource"
    /\ Len(response.body) >= 2

\* A response that turns the request down: an exception, or a text that is
\* not a confirmation
IsRejection(resp) ==
    \/ resp.kind = "raise"
    \/ resp.kind = "content" /\ ~IsConfirmation(resp)

\* A rejection reported as ordinary text
IsTextualRejection(resp) ==
    resp.kind = "content" /\ ~IsConfirmation(resp)

\* The ids issued so far
IssuedIds == {issued[i] : i \in 1..Len(issued)}

\* C5: book_cab with an empty pickup_location is rejected, and neither the
\* store nor the id counter changes.
C5_EmptyPickupRejected ==
    [][(/\ IsCall(request', "book_cab")
        /\ "pickup_location" \in DOMAIN request'.arguments
        /\ request'.arguments["pickup_location"] = "")
       => (/\ IsRejection(response')
           /\ UNCHANGED <<bookings_db, booking_counter>>)]_vars

\* C6: book_cab whose cab_type is not Standard, Premium or Luxury, or whose
\* pickup_datetime is no date-time, is rejected with a text and nothing
\* changes; every stored booking has one of the three cab classes.
C6_BadCabTypeOrDatetimeRejected ==
    [][/\ (/\ IsCall(request', "book_cab")
           /\ BookCabKeys \subseteq DOMAIN request'.arguments
           /\ \/ request'.arguments["cab_type"] \notin AdvertisedCabTypes
              \/ request'.arguments["pickup_datetime"] \notin IsoDatetimes)
          => (/\ IsTextualRejection(response')
              /\ UNCHANGED <<bookings_db, booking_counter>>)
       /\ \A i \in 1..Len(bookings_db') :
             bookings_db'[i].value.cab_type \in AdvertisedCabTypes]_vars

\* C7: check_booking_status with an id that was never issued answers with
\* the not-found text, raises nothing, and leaves bookings and counter as
\* they were.
C7_UnknownIdNotFound ==
    [][(/\ IsCall(request', "check_booking_status")
        /\ "booking_id" \in DOMAIN request'.arguments
        /\ request'.arguments["booking_id"] \notin IssuedIds)
       => (/\ response'.kind = "content"
           /\ response'.lines = <<>>
           /\ response'.heading =
                 "Booking " \o request'.arguments["booking_id"]
                     \o " not found. Please check the booking ID."
           /\ UNCHANGED <<bookings_db, booking_counter>>)]_vars

\* CAB9999 was asked for on an empty registry and answered with a text
C7_Witness ==
    /\ IsCall(request, "check_booking_status")
    /\ "booking_id" \in DOMAIN request.arguments
    /\ request.arguments["booking_id"] = "CAB9999"
    /\ bookings_db = <<>>
    /\ response.kind = "content"

\* C8: every request other than book_cab (check_booking_status,
\* list_available_cabs, an unknown action, read_resource, get_prompt) leaves
\* bookings_db and booking_counter unchanged, whether it succeeds or fails.
C8_OnlyBookCabMutates ==
    [][(request'.op # "none" /\ ~IsCall(request', "book_cab"))
       => UNCHANGED <<bookings_db, booking_counter>>]_vars

\* A stored booking was looked up and the registry still holds two bookings
C8_Witness ==
    /\ IsCall(request, "check_booking_status")
    /\ HasLine(response, "Booking ID")
    /\ Len(bookings_db) = 2
    /\ booking_counter = 1002

\* C9: a booking, once stored, stays under its id with the same record in
\* every later state, and its id is never handed out again.
C9_BookingsImmutable ==
    [][/\ \A i \in 1..Len(bookings_db) :
             /\ DictHas(bookings_db', bookings_db[i].key)
             /\ DictGet(bookings_db', bookings_db[i].key) = bookings_db[i].value
       /\ Len(issued') > Len(issued) =>
             /\ issued'[Len(issued')] \notin DictKeys(bookings_db)
             /\ issued'[Len(issued')] \notin IssuedIds]_vars

\* A second booking was made with arguments other than the first one's
C9_Witness ==
    /\ IsCall(request, "book_cab")
    /\ Len(bookings_db) >= 2
    /\ bookings_db[1].value.pickup_location # bookings_db[2].value.pickup_location

\* C10: a call with a name other than the three tools is answered with a
\* text naming the unknown action, raises nothing, and leaves the registry
\* unchanged for the requests that follow.
C10_UnknownActionIsText ==
    [][(request'.op = "call_tool" /\ request'.name \notin ToolNames)
       => (/\ response'.kind = "content"
           /\ response'.heading = "Unknown tool: " \o request'.name
           /\ UNCHANGED <<bookings_db, booking_counter>>)]_vars

\* An unknown action was answered with a text while a booking is stored
C10_Witness ==
    /\ request.op = "call_tool"
    /\ request.name = "cancel_booking"
    /\ response.kind = "content"
    /\ Len(bookings_db) >= 1

\* C11: read_resource with a URI other than booking://all and get_prompt
\* with a name other than booking_assistant raise (an error signal, not a
\* text) and change nothing; with the recognized identifier they succeed,
\* in every registry state.
C11_UnknownResourceOrPromptRaises ==
    [][/\ request'.op = "read_resource" =>
             /\ UNCHANGED <<bookings_db, booking_counter>>
             /\ IF request'.uri = "booking://all"
                THEN response'.kind = "resource"
                ELSE response'.kind = "raise" /\ response'.exc = "ValueError"
       /\ request'.op = "get_prompt" =>
             /\ UNCHANGED <<bookings_db, booking_counter>>
             /\ IF request'.name = "booking_assistant"
                THEN response'.kind = "prompt"
                ELSE response'.kind = "raise" /\ response'.exc = "ValueError"]_vars

\* An unknown prompt was asked for while a booking is stored, and it raised
C11_Witness ==
    /\ request.op = "get_prompt"
    /\ request.name = "driver_assistant"
    /\ response.kind = "raise"
    /\ Len(bookings_db) >= 1

\* ------------------------------------------------------------------------
\* Reading JSON back (json.loads)
\* ------------------------------------------------------------------------

\* The characters of a JSON string from position i up to the first
\* quotation mark that has no backslash in front, escapes undone
RECURSIVE JsonScanString(_, _)
JsonScanString(t, i) ==
    IF i > Len(t) THEN ""
    ELSE IF SubSeq(t, i, i) = "\"" THEN ""
    ELSE IF SubSeq(t, i, i) = "\\"
         THEN SubSeq(t, i + 1, i + 1) \o JsonScanString(t, i + 2)
         ELSE SubSeq(t, i, i) \o JsonScanString(t, i + 1)

\* The str a JSON string literal denotes
JsonParseString(t) == JsonScanString(t, 2)

\* The value a JSON literal denotes: a str, or a float in hundredths
JsonParseLiteral(t) ==
    IF Head(t) = "\"" THEN JsonParseString(t) ELSE MoneyValue("$" \o t)

\* The dict a JSON object of literals denotes
JsonParseObject(members) ==
    LET names == [i \in 1..Len(members) |-> JsonParseString(members[i][1])]
    IN [n \in {names[i] : i \in 1..Len(members)} |->
          JsonParseLiteral(
              members[CHOOSE i \in 1..Len(members) : names[i] = n][2])]

\* The dict the body of booking://all denotes
JsonLoads(body) ==
    [i \in 1..Len(body) |->
        [key |-> JsonParseString(body[i][1]),
         value |-> JsonParseObject(body[i][2])]]

\* A dict as a mapping: its key-value pairs
DictItems(d) == {<<d[i].key, d[i].value>> : i \in 1..Len(d)}

\* Two dicts hold the same mapping
SameMapping(d, e) ==
    /\ Len(d) = Len(e)
    /\ Cardinality(DictKeys(d)) = Len(d)
    /\ DictItems(d) = DictItems(e)

\* C12: serializing the registry as resource booking://all does and parsing
\* the result back gives a mapping from id to booking identical to the
\* registry's contents: same ids, same field values, nothing missing or
\* extra.  The resource can be read in every state, so this is stated of
\* every body read_resource returned.
C12_JsonRoundTrip ==
    response.kind = "resource" =>
        SameMapping(JsonLoads(response.body), bookings_db)

\* The resource was read while a booking whose drop-off holds a quotation
\* mark is stored
C12_Witness ==
    /\ response.kind = "resource"
    /\ \E i \in 1..Len(bookings_db) :
          bookings_db[i].value.dropoff_location = "O\"Hare"

\* The keys of a stored booking
BookingFields == {BookingFieldOrder[i] : i \in 1..Len(BookingFieldOrder)}

\* The record the task that took id k builds from its arguments
FinalRecordOf(t, k) ==
    [booking_id |-> k,
     pickup_location |-> task_args[t]["pickup_location"],
     dropoff_location |-> task_args[t]["dropoff_location"],
     pickup_datetime |-> task_args[t]["pickup_datetime"],
     cab_type |-> task_args[t]["cab_type"],
     status |-> "confirmed",
     fare |-> 5000]

\* C13: with reads served between book_cab requests in flight, an id that
\* is in the store always has its complete record: all seven fields, with
\* the values the booking task ends with; a status text reports all seven
\* of them and every booking in a resource body has seven members.
C13_NoPartialBooking ==
    /\ \A i \in 1..Len(bookings_db) :
          /\ DOMAIN bookings_db[i].value = BookingFields
          /\ \E t \in Tasks :
                /\ task_id[t] = bookings_db[i].key
                /\ BookCabKeys \subseteq DOMAIN task_args[t]
                /\ bookings_db[i].value = FinalRecordOf(t, bookings_db[i].key)
    /\ (IsCall(request, "check_booking_status") /\ HasLine(response, "Booking ID"))
          => /\ Len(response.lines) = 7
             /\ \E t \in Tasks :
                   /\ task_id[t] = Line(response, "Booking ID")
                   /\ response =
                         BookingStatusText(
                             FinalRecordOf(t, Line(response, "Booking ID")))
    /\ response.kind = "resource" =>
          \A i \in 1..Len(response.body) : Len(response.body[i][2]) = 7

\* A stored booking was read while another book_cab request was in flight
C13_Witness ==
    /\ IsCall(request, "check_booking_status")
    /\ HasLine(response, "Booking ID")
    /\ \E t \in Tasks : task_pc[t] = "pending"
    /\ \E t \in Tasks : task_pc[t] = "done"

\* C14: book_cab with any of its four arguments missing raises KeyError
\* before any state is touched: the counter is not advanced and nothing is
\* inserted, so a valid book_cab served right after it gets the id that the
\* bookings made before call for.
C14_MissingArgumentConsumesNoId ==
    [][/\ (/\ IsCall(request', "book_cab")
           /\ ~(BookCabKeys \subseteq DOMAIN request'.arguments))
          => (/\ response'.kind = "raise"
              /\ response'.exc = "KeyError"
              /\ response'.msg \in BookCabKeys \ DOMAIN request'.arguments
              /\ UNCHANGED <<bookings_db, booking_counter, issued>>)
       /\ (/\ IsCall(request, "book_cab")
           /\ response.kind = "raise"
           /\ IsCall(request', "book_cab")
           /\ IsConfirmation(response'))
          => (/\ IsCabId(Line(response', "Booking ID"))
              /\ CabIdNumber(Line(response', "Booking ID"))
                    = 1000 + Len(issued))]_vars

\* A book_cab lacking an argument has raised while a booking is stored
C14_Witness ==
    /\ IsCall(request, "book_cab")
    /\ response.kind = "raise"
    /\ Len(bookings_db) >= 1
    /\ booking_counter = 1000 + Len(bookings_db)

\* C15: list_available_cabs gives the same breakdown (Standard 5 / 3 mins,
\* Premium 3 / 5 mins, Luxury 1 / 8 mins) for every location and in every
\* registry state.  The breakdown of every answer equals one fixed value,
\* so any two runs, whatever their locations and bookings, agree on it.
C15_AvailabilityIndependent ==
    (IsCall(request, "list_available_cabs") /\ response.kind = "content")
        => response.lines =
              << <<"Standard", "5 available (ETA: 3 mins)">>,
                 <<"Premium", "3 available (ETA: 5 mins)">>,
                 <<"Luxury", "1 available (ETA: 8 mins)">> >>

\* Cabs were listed for an empty location with two bookings stored
C15_Witness ==
    /\ IsCall(request, "list_available_cabs")
    /\ response.kind = "content"
    /\ request.arguments["location"] = ""
    /\ Len(bookings_db) >= 2

\* C16: between requests booking_counter is 1000 plus the number of stored
\* bookings, the keys of bookings_db are exactly CAB1000 .. CAB(counter - 1)
\* without gaps, and every record's booking_id is the key it is stored under.
C16_CounterMatchesStore ==
    /\ booking_counter = 1000 + Len(bookings_db)
    /\ Cardinality(DictKeys(bookings_db)) = Len(bookings_db)
    /\ \A k \in DictKeys(bookings_db) : IsCabId(k)
    /\ {CabIdNumber(k) : k \in DictKeys(bookings_db)}
          = 1000..(booking_counter - 1)
    /\ \A i \in 1..Len(bookings_db) :
          bookings_db[i].value.booking_id = bookings_db[i].key

\* Two or more bookings are stored and a request that books nothing was served
C16_Witness ==
    /\ Len(bookings_db) >= 2
    /\ request.op = "read_resource"

====
